---- MODULE Spec2Model ----
(***************************************************************************)
(* The weather and solar demo services of feeder-data-dashboard and the    *)
(* CORS verification script that calls them.                               *)
(*                                                                         *)
(* Floating-point quantities are fixed-point integers in units of 10^-3.   *)
(* A datetime is the number of minutes since an arbitrary midnight.        *)
(***************************************************************************)
EXTENDS Integers, Sequences, FiniteSets, TLC

\* ------------------------------------------------------------------ bounds
\* Largest "short" limit a client asks for.
MaxLimit == 3
\* A limit longer than one day of hourly records.
LongLimit == 25

\* ------------------------------------------------------- program constants
\* Query(..., ge=1, le=100)
LimitGe == 1
LimitLe == 100
\* Query(20, ...), limit: int = 20
DefaultWeatherLimit == 20
\* Query(24, ...)
DefaultSolarLimit == 24
\* the daylight window  6 <= hour <= 18
DayBegin == 6
DayEnd == 18
\* timedelta(minutes=(limit - i - 1) * 5)
StepMinutes == 5

\* ------------------------------------------------------------- arithmetic
\* One unit (1.0) in fixed point.
Scale == 10 ^ 3

Fx(n) == n * Scale

Max(a, b) == IF a >= b THEN a ELSE b

Min(a, b) == IF a <= b THEN a ELSE b

Abs(a) == IF a >= 0 THEN a ELSE 0 - a

\* round(x, digits): to the nearest multiple of 10^-digits, ties to even.
Round(x, digits) ==
    LET unit == Scale \div (10 ^ digits)
        q    == x \div unit
        r    == x % unit
    IN  IF 2 * r > unit \/ (2 * r = unit /\ q % 2 = 1)
        THEN (q + 1) * unit
        ELSE q * unit

\* math.sin((hour - 6) * math.pi / 12) for hour = 0..23, in fixed point.
SinTable ==
    << -1000, -966, -866, -707, -500, -259,
           0,  259,  500,  707,  866,  966,
        1000,  966,  866,  707,  500,  259,
           0, -259, -500, -707, -866, -966 >>

SinHour(hour) == SinTable[hour + 1]

\* -------------------------------------------------------------- datetime
MinutesPerDay == 24 * 60

\* datetime.hour
HourOf(t) == (t \div 60) % 24

\* datetime.isoformat(): the broken-down calendar fields of the instant.
IsoFormat(t) ==
    [ date   |-> t \div MinutesPerDay,
      hour   |-> HourOf(t),
      minute |-> t % 60 ]

\* datetime.fromisoformat(), the inverse reading used to compare instants.
FromIso(s) == s.date * MinutesPerDay + s.hour * 60 + s.minute

\* datetime.now(): five minutes past every third hour of the second day.  A
\* backward series of 25 records reaches two hours back and a forward series
\* of 25 records a day ahead, so records fall in every hour of the day.
NowHours == { 3 * k : k \in 0 .. 7 }

Nows == { MinutesPerDay + h * 60 + 5 : h \in NowHours }

\* ---------------------------------------------------------- random source
\* The process-wide generator of module random.  Its state is a position in
\* a cyclic bit sequence in which every window of six successive draws is a
\* different pattern, so that every combination of extreme draws inside one
\* loop iteration is produced by some seed.
RandomBits ==
    << 0, 0, 0, 0, 0, 0, 1, 0, 0, 0, 0, 1, 1, 0, 0, 0,
       1, 0, 1, 0, 0, 0, 1, 1, 1, 0, 0, 1, 0, 0, 1, 0,
       1, 1, 0, 0, 1, 1, 0, 1, 0, 0, 1, 1, 1, 1, 0, 1,
       0, 1, 0, 1, 1, 1, 0, 1, 1, 0, 1, 1, 1, 1, 1, 1 >>

Seeds == 0 .. (Len(RandomBits) - 1)

\* random.random() after k earlier draws from state r: 0 or 1 (the extremes).
Draw(r, k) == RandomBits[((r + k) % Len(RandomBits)) + 1]

\* The state of the source after k draws.
Advance(r, k) == (r + k) % Len(RandomBits)

\* random.uniform(a, b) == a + (b - a) * random(), on fixed-point a and b.
Uniform(a, b, u) == a + (b - a) * u

\* ------------------------------------------------------- shared formulas
\* the window test with its upper end one hour late
DaylightLate(hour) == DayBegin <= hour /\ hour <= DayEnd + 1

\* the test  6 <= hour <= 18
Daylight(hour) == DayBegin <= hour /\ hour <= DayEnd

\* the clamp left out
NonNegMissing(x) == x

\* max(0, x)
NonNeg(x) == Max(0, x)

\* max(lo, min(hi, x))
Clamp(lo, hi, x) == Max(lo, Min(hi, x))

\* the loop index used as the id
RowIdZeroBased(i) == i

\* "id": i + 1
RowId(i) == i + 1

\* the series ending one step before now
BackwardTimestampOffByOne(now, limit, i) == now - (limit - i) * StepMinutes

\* now - timedelta(minutes=(limit - i - 1) * 5)
BackwardTimestamp(now, limit, i) == now - (limit - i - 1) * StepMinutes

\* now + timedelta(hours=i)
ForwardTimestamp(now, i) == now + i * 60

\* latitude 6.86666 and longitude 80.01667, in units of 10^-5 degree
Latitude == 686666
Longitude == 8001667

Location == [ latitude |-> Latitude, longitude |-> Longitude ]

\* ------------------------------------ backend_cors_fix_weather_api.py
\* The record built by iteration i of generate_weather_data, the random
\* source being in state r when the iteration starts.
WeatherRow(limit, now, i, r) ==
    LET timestamp   == BackwardTimestamp(now, limit, i)
        hour        == HourOf(timestamp)
        base_temp   == Fx(25) + SinHour(hour) * 8
        temperature == base_temp + Uniform(Fx(-2), Fx(2), Draw(r, 0))
        humidity    == Clamp(Fx(30), Fx(90),
                             Fx(60) + Uniform(Fx(-15), Fx(15), Draw(r, 1)))
        wind_speed  == NonNeg(Fx(3) + Uniform(Fx(-1), Fx(3), Draw(r, 2)))
        pressure    == Fx(1013) + Uniform(Fx(-10), Fx(10), Draw(r, 3))
        cloud_cover == Uniform(Fx(0), Fx(80), Draw(r, 4))
        base_irradiance == 800 * SinHour(hour)
        cloud_factor    == (Fx(100) - cloud_cover) \div 100
        irradiance  ==
            IF Daylight(hour)
            THEN NonNeg((base_irradiance * cloud_factor) \div Scale
                        + Uniform(Fx(-50), Fx(50), Draw(r, 5)))
            ELSE 0
    IN  [ id                       |-> RowId(i),
          timestamp                |-> IsoFormat(timestamp),
          temperature              |-> Round(temperature, 1),
          relative_humidity_2m     |-> Round(humidity, 1),
          wind_speed_10m           |-> Round(wind_speed, 1),
          pressure_msl             |-> Round(pressure, 1),
          cloud_cover              |-> Round(cloud_cover, 1),
          direct_normal_irradiance |-> Round(irradiance, 1),
          latitude                 |-> Latitude,
          longitude                |-> Longitude,
          data_type                |-> "forecast" ]

\* random.uniform calls made by one iteration at that hour
WeatherDraws(hour) == IF Daylight(hour) THEN 6 ELSE 5

\* The loop  for i in range(limit): data.append({...}) ; iteration i starts
\* from the source state left by the draws of iterations 0 .. i-1.
generate_weather_data(limit, now, r) ==
    LET Hour(i)   == HourOf(BackwardTimestamp(now, limit, i))
        Before(i) == 5 * i + Cardinality({ j \in 0 .. (i - 1) :
                                           WeatherDraws(Hour(j)) = 6 })
    IN  [ data |-> [ k \in 1 .. limit |->
                       WeatherRow(limit, now, k - 1, Advance(r, Before(k - 1))) ],
          rng  |-> Advance(r, Before(Max(limit, 0))) ]

\* -------------------------------------- backend_cors_fix_solar_api.py
RealtimeRow(limit, now, i, r) ==
    LET timestamp   == BackwardTimestamp(now, limit, i)
        hour        == HourOf(timestamp)
        k           == IF Daylight(hour) THEN 1 ELSE 0
        solar_curve == SinHour(hour)
        base_power  == solar_curve * 5
        predicted_power ==
            IF Daylight(hour)
            THEN NonNeg(base_power + Uniform(0 - Fx(1) \div 2, Fx(1) \div 2,
                                             Draw(r, 0)))
            ELSE 0
        temp        == Fx(25) + SinHour(hour) * 8
                       + Uniform(Fx(-2), Fx(2), Draw(r, k))
        humidity    == Clamp(Fx(30), Fx(90),
                             Fx(60) + Uniform(Fx(-15), Fx(15), Draw(r, k + 1)))
        wind_speed  == Fx(3) + Uniform(Fx(-1), Fx(2), Draw(r, k + 2))
        cloud_cover == Uniform(Fx(0), Fx(60), Draw(r, k + 3))
        irradiance  == IF Daylight(hour)
                       THEN NonNeg(800 * SinHour(hour))
                       ELSE 0
    IN  [ id                 |-> RowId(i),
          timestamp          |-> IsoFormat(timestamp),
          predicted_power_kw |-> Round(predicted_power, 2),
          weather_conditions |->
            [ temperature              |-> Round(temp, 1),
              relative_humidity_2m     |-> Round(humidity, 1),
              wind_speed_10m           |-> Round(wind_speed, 1),
              cloud_cover              |-> Round(cloud_cover, 1),
              direct_normal_irradiance |-> Round(irradiance, 1) ],
          location           |-> Location ]

\* random.uniform calls made by one iteration at that hour
SolarDraws(hour) == IF Daylight(hour) THEN 5 ELSE 4

generate_realtime_predictions(limit, now, r) ==
    LET Hour(i)   == HourOf(BackwardTimestamp(now, limit, i))
        Before(i) == 4 * i + Cardinality({ j \in 0 .. (i - 1) :
                                           SolarDraws(Hour(j)) = 5 })
    IN  [ data |-> [ k \in 1 .. limit |->
                       RealtimeRow(limit, now, k - 1, Advance(r, Before(k - 1))) ],
          rng  |-> Advance(r, Before(Max(limit, 0))) ]

\* the realtime range used in the forecast
ForecastCloudCoverAsRealtime(u) == Uniform(Fx(0), Fx(60), u)

\* random.uniform(0, 50)
ForecastCloudCover(u) == Uniform(Fx(0), Fx(50), u)

ForecastRow(now, i, r) ==
    LET timestamp   == ForwardTimestamp(now, i)
        hour        == HourOf(timestamp)
        k           == IF Daylight(hour) THEN 1 ELSE 0
        solar_curve == SinHour(hour)
        base_power  == solar_curve * 6
        predicted_power ==
            IF Daylight(hour)
            THEN NonNeg(base_power
                        + Uniform(0 - (Fx(8) \div 10), Fx(8) \div 10, Draw(r, 0)))
            ELSE 0
        temp        == Fx(26) + SinHour(hour) * 7
                       + Uniform(0 - (Fx(15) \div 10), Fx(15) \div 10, Draw(r, k))
        humidity    == Clamp(Fx(35), Fx(85),
                             Fx(55) + Uniform(Fx(-12), Fx(12), Draw(r, k + 1)))
        wind_speed  == Fx(25) \div 10
                       + Uniform(0 - (Fx(5) \div 10), Fx(2), Draw(r, k + 2))
        cloud_cover == ForecastCloudCover(Draw(r, k + 3))
        irradiance  == IF Daylight(hour)
                       THEN NonNeg(850 * SinHour(hour))
                       ELSE 0
    IN  [ id                 |-> RowId(i),
          timestamp          |-> IsoFormat(timestamp),
          predicted_power_kw |-> Round(predicted_power, 2),
          weather_conditions |->
            [ temperature              |-> Round(temp, 1),
              relative_humidity_2m     |-> Round(humidity, 1),
              wind_speed_10m           |-> Round(wind_speed, 1),
              cloud_cover              |-> Round(cloud_cover, 1),
              direct_normal_irradiance |-> Round(irradiance, 1) ],
          location           |-> Location,
          forecast_type      |-> "hourly" ]

generate_forecast_predictions(limit, now, r) ==
    LET Hour(i)   == HourOf(ForwardTimestamp(now, i))
        Before(i) == 4 * i + Cardinality({ j \in 0 .. (i - 1) :
                                           SolarDraws(Hour(j)) = 5 })
    IN  [ data |-> [ k \in 1 .. limit |->
                       ForecastRow(now, k - 1, Advance(r, Before(k - 1))) ],
          rng  |-> Advance(r, Before(Max(limit, 0))) ]

\* ------------------------------------------------ weather_api_example.py
\* base_temp = 20 + 10 * abs(12 - hour) / 12
SampleBaseTemp(hour) == Fx(20) + (10 * Abs(12 - hour) * Scale) \div 12

\* time_factor = abs(12 - hour) / 6
SampleTimeFactor(hour) == (Abs(12 - hour) * Scale) \div 6

SampleRow(now, i, r, data_type) ==
    LET timestamp   == ForwardTimestamp(now, i)
        hour        == HourOf(timestamp)
        base_temp   == SampleBaseTemp(hour)
        temperature == base_temp + Uniform(Fx(-3), Fx(3), Draw(r, 0))
        humidity    == Fx(60) + Uniform(Fx(-20), Fx(20), Draw(r, 1))
        wind_speed  == Fx(5) + Uniform(Fx(-2), Fx(5), Draw(r, 2))
        pressure    == Fx(1013) + Uniform(Fx(-10), Fx(10), Draw(r, 3))
        cloud_cover == Uniform(Fx(0), Fx(100), Draw(r, 4))
        max_irradiance == 1000 * (Scale - cloud_cover \div 100)
        time_factor == SampleTimeFactor(hour)
        irradiance  ==
            IF Daylight(hour)
            THEN (max_irradiance * (Scale - time_factor)) \div Scale
                 + Uniform(Fx(-50), Fx(50), Draw(r, 5))
            ELSE 0
    IN  [ id                       |-> RowId(i),
          timestamp                |-> IsoFormat(timestamp),
          temperature              |-> Round(temperature, 1),
          relative_humidity_2m     |-> Round(Clamp(0, Fx(100), humidity), 1),
          wind_speed_10m           |-> Round(NonNeg(wind_speed), 1),
          pressure_msl             |-> Round(pressure, 1),
          cloud_cover              |-> Round(Clamp(0, Fx(100), cloud_cover), 1),
          direct_normal_irradiance |-> Round(NonNeg(irradiance), 1),
          latitude                 |-> Latitude,
          longitude                |-> Longitude,
          data_type                |-> data_type ]

generate_sample_weather_data(limit, now, r, data_type) ==
    LET Hour(i)   == HourOf(ForwardTimestamp(now, i))
        Before(i) == 5 * i + Cardinality({ j \in 0 .. (i - 1) :
                                           WeatherDraws(Hour(j)) = 6 })
    IN  [ data |-> [ k \in 1 .. limit |->
                       SampleRow(now, k - 1, Advance(r, Before(k - 1)), data_type) ],
          rng  |-> Advance(r, Before(Max(limit, 0))) ]

\* ------------------------------------------------------------ the state
VARIABLES
    pc,         \* "idle": no request in flight; "responded": a response is ready
    rng,        \* state of the process-wide random source
    request,    \* the request being served
    called,     \* the generator call the handler made, with its arguments
    response,   \* the response of the handler
    spc,        \* position of the verification script
    stdout,     \* lines the verification script has printed
    executed,   \* checks of the script whose HTTP call was issued
    failed      \* checks of the script that raised

svars == << pc, rng, request, called, response >>

tvars == << spc, stdout, executed, failed >>

vars == << pc, rng, request, called, response, spc, stdout, executed, failed >>

\* --------------------------------------------------- query parameters
LimitInputs == {0} \cup (1 .. MaxLimit) \cup {LongLimit, LimitLe + 1}

\* ?limit=<n>, ?limit=abc, or no limit parameter at all
LimitParams ==
    { [ kind |-> "int", val |-> n ] : n \in LimitInputs }
    \cup { [ kind |-> "omitted", val |-> 0 ], [ kind |-> "text", val |-> 0 ] }

\* ?data_type=<text> or no data_type parameter
DataTypeParams ==
    { [ given |-> FALSE, val |-> "" ], [ given |-> TRUE, val |-> "historical" ] }

NoLimit == [ kind |-> "omitted", val |-> 0 ]

NoDataType == [ given |-> FALSE, val |-> "" ]

\* limit: int = Query(default, ge=1, le=100)
QueryLimit(param, default) ==
    CASE param.kind = "omitted" -> [ ok |-> TRUE, val |-> default ]
      [] param.kind = "text"    -> [ ok |-> FALSE, val |-> 0 ]
      [] OTHER -> [ ok |-> LimitGe <= param.val /\ param.val <= LimitLe,
                    val |-> param.val ]

\* limit: int = 20
PlainLimit(param, default) ==
    CASE param.kind = "omitted" -> [ ok |-> TRUE, val |-> default ]
      [] param.kind = "text"    -> [ ok |-> FALSE, val |-> 0 ]
      [] OTHER -> [ ok |-> TRUE, val |-> param.val ]

\* data_type: str = "forecast"
DataTypeArg(param) == IF param.given THEN param.val ELSE "forecast"

\* datetime.now() is read inside the generator only: a request that fails
\* validation reads no clock.
ClockReads(q) == IF q.ok THEN Nows ELSE {0}

\* ------------------------------------------------------------- responses
NoCall == [ fn |-> "none", limit |-> 0, now |-> 0, data_type |-> "" ]

NoRequest == [ app |-> "", path |-> "", limit |-> NoLimit, data_type |-> NoDataType ]

NoResponse == [ status |-> 0, kind |-> "none", body |-> << >> ]

\* a JSON array of records
ArrayResponse(data) == [ status |-> 200, kind |-> "array", body |-> data ]

\* a JSON object
ObjectResponse(obj) == [ status |-> 200, kind |-> "object", body |-> << obj >> ]

\* the framework's answer to a parameter that fails validation
ValidationError == [ status |-> 422, kind |-> "error", body |-> << >> ]

Init ==
    /\ pc = "idle"
    /\ rng \in Seeds
    /\ request = NoRequest
    /\ called = NoCall
    /\ response = NoResponse
    /\ spc = "start"
    /\ stdout = << >>
    /\ executed = {}
    /\ failed = {}

\* A handler that maps its route to one generator call.
\* gen is [data, rng], the result of the call made with (limit, now, data_type).
Serve(app, path, limit, data_type, q, fn, now, arg_type, gen) ==
    /\ pc = "idle"
    /\ pc' = "responded"
    /\ request' = [ app |-> app, path |-> path, limit |-> limit,
                    data_type |-> data_type ]
    /\ IF q.ok
       THEN /\ called' = [ fn |-> fn, limit |-> q.val, now |-> now,
                           data_type |-> arg_type ]
            /\ response' = ArrayResponse(gen.data)
            /\ rng' = gen.rng
       ELSE /\ called' = NoCall
            /\ response' = ValidationError
            /\ rng' = rng
    /\ UNCHANGED tvars

\* A handler that returns a fixed object.
ServeStatic(app, path, obj) ==
    /\ pc = "idle"
    /\ pc' = "responded"
    /\ request' = [ app |-> app, path |-> path, limit |-> NoLimit,
                    data_type |-> NoDataType ]
    /\ called' = NoCall
    /\ response' = ObjectResponse(obj)
    /\ UNCHANGED << rng, tvars >>

\* ------------------------------------ backend_cors_fix_weather_api.py
weather_root ==
    ServeStatic("backend_weather", "/",
                [ message |-> "Weather API is running", status |-> "ok" ])

get_weather_data ==
    \E limit \in LimitParams :
        LET q == QueryLimit(limit, DefaultWeatherLimit)
        IN  \E now \in ClockReads(q) :
                Serve("backend_weather", "/weather/data", limit, NoDataType, q,
                      "generate_weather_data", now, "",
                      generate_weather_data(q.val, now, rng))

get_weather_data_alt ==
    \E limit \in LimitParams, data_type \in DataTypeParams :
        LET q == QueryLimit(limit, DefaultWeatherLimit)
        IN  \E now \in ClockReads(q) :
                Serve("backend_weather", "/weather-data", limit, data_type, q,
                      "generate_weather_data", now, "",
                      generate_weather_data(q.val, now, rng))

\* -------------------------------------- backend_cors_fix_solar_api.py
solar_root ==
    ServeStatic("backend_solar", "/",
                [ message |-> "Solar API is running", status |-> "ok" ])

get_solar_predictions ==
    \E limit \in LimitParams :
        LET q == QueryLimit(limit, DefaultSolarLimit)
        IN  \E now \in ClockReads(q) :
                Serve("backend_solar", "/solar-predictions", limit, NoDataType, q,
                      "generate_realtime_predictions", now, "",
                      generate_realtime_predictions(q.val, now, rng))

get_forecast_predictions ==
    \E limit \in LimitParams :
        LET q == QueryLimit(limit, DefaultSolarLimit)
        IN  \E now \in ClockReads(q) :
                Serve("backend_solar", "/solar-predictions/forecast", limit,
                      NoDataType, q, "generate_forecast_predictions", now, "",
                      generate_forecast_predictions(q.val, now, rng))

get_predictions_summary ==
    \E now \in Nows :
        ServeStatic("backend_solar", "/solar-predictions/summary",
                    [ total_predictions |-> 150,
                      last_updated |-> IsoFormat(now) ])

get_database_status ==
    \E now \in Nows :
        ServeStatic("backend_solar", "/database/status",
                    [ status |-> "connected", weather_records |-> 1250,
                      prediction_records |-> 890,
                      last_update |-> IsoFormat(now) ])

\* ------------------------------------------------ weather_api_example.py
example_root ==
    ServeStatic("example_weather", "/",
                [ message |-> "Weather API is running", status |-> "ok" ])

example_get_weather_data ==
    \E limit \in LimitParams :
        LET q == PlainLimit(limit, DefaultWeatherLimit)
        IN  \E now \in ClockReads(q) :
                Serve("example_weather", "/weather/data", limit, NoDataType, q,
                      "generate_sample_weather_data", now, "forecast",
                      generate_sample_weather_data(q.val, now, rng, "forecast"))

get_weather_data_alternative ==
    \E limit \in LimitParams, data_type \in DataTypeParams :
        LET q == PlainLimit(limit, DefaultWeatherLimit)
            t == DataTypeArg(data_type)
        IN  \E now \in ClockReads(q) :
                Serve("example_weather", "/weather-data", limit, data_type, q,
                      "generate_sample_weather_data", now, t,
                      generate_sample_weather_data(q.val, now, rng, t))

health_check ==
    \E now \in Nows :
        ServeStatic("example_weather", "/health",
                    [ status |-> "healthy", timestamp |-> IsoFormat(now) ])

\* The framework has sent the response; the service holds nothing of it.
Deliver ==
    /\ pc = "responded"
    /\ pc' = "idle"
    /\ request' = NoRequest
    /\ called' = NoCall
    /\ response' = NoResponse
    /\ UNCHANGED << rng, tvars >>

\* ---------------------------------------------------- test_cors_fix.py
\* the checks of test_weather_api and of test_solar_api, in program order
WeatherChecks == << "weather_root", "weather_data", "weather_cors" >>

SolarChecks ==
    << "solar_root", "solar_predictions", "solar_database", "solar_cors" >>

Range(seq) == { seq[k] : k \in DOMAIN seq }

AllChecks == Range(WeatherChecks) \cup Range(SolarChecks)

\* the checks made with requests.options; the others use requests.get
OptionsChecks == { "weather_cors", "solar_cors" }

ChecksOf(c) == IF c \in Range(WeatherChecks) THEN WeatherChecks ELSE SolarChecks

IndexIn(seq, c) == CHOOSE k \in DOMAIN seq : seq[k] = c

\* where control is once the function holding check c has returned
AfterFunction(c) ==
    IF c \in Range(WeatherChecks) THEN "solar_banner" ELSE "completed"

\* the statement that follows check c when c raises nothing
AfterCheck(c) ==
    LET seq == ChecksOf(c)
        k   == IndexIn(seq, c)
    IN  IF k < Len(seq) THEN seq[k + 1] ELSE AfterFunction(c)

\* each check guarded on its own
AfterRaiseNextCheck(c) == AfterCheck(c)

\* the statement that follows check c when c raises: the except clause of
\* the enclosing function, which then returns
AfterRaise(c) == AfterFunction(c)

\* except Exception as e
Catches(exc) == exc \in { "ConnectionError", "Timeout", "JSONDecodeError" }

\* What one HTTP call can do: raise in requests, or return a response whose
\* body may or may not be JSON and whose headers may carry the CORS origin.
HttpOutcomes(c) ==
    { [ exc |-> e, status |-> 0, json |-> FALSE, acao |-> "None" ] :
        e \in { "ConnectionError", "Timeout" } }
    \cup
    IF c \in OptionsChecks
    THEN { [ exc |-> "none", status |-> st, json |-> FALSE, acao |-> h ] :
             st \in { 200, 405 }, h \in { "None", "http://localhost:5173" } }
    ELSE { [ exc |-> "none", status |-> st, json |-> j, acao |-> "None" ] :
             st \in { 200, 500 }, j \in BOOLEAN }

\* The exception the statements of check c raise on outcome o ("none" if
\* they complete): the call itself, or response.json() on a non-JSON body.
Raised(c, o) ==
    IF o.exc # "none" THEN o.exc
    ELSE IF c \notin OptionsChecks /\ ~o.json THEN "JSONDecodeError"
    ELSE "none"

OkLine(c, o) == [ tag |-> c, status |-> o.status, text |-> o.acao ]

ErrorLine(c, exc) ==
    [ tag    |-> IF c \in Range(WeatherChecks) THEN "weather_error"
                                               ELSE "solar_error",
      status |-> 0,
      text   |-> exc ]

Banner(tag) == [ tag |-> tag, status |-> 0, text |-> "" ]

\* One check: the HTTP call and the print that follows it.
Check(c) ==
    /\ spc = c
    /\ \E o \in HttpOutcomes(c) :
         LET exc == Raised(c, o)
         IN  /\ executed' = executed \cup {c}
             /\ IF exc = "none"
                THEN /\ stdout' = Append(stdout, OkLine(c, o))
                     /\ failed' = failed
                     /\ spc' = AfterCheck(c)
                ELSE IF Catches(exc)
                THEN /\ stdout' = Append(stdout, ErrorLine(c, exc))
                     /\ failed' = failed \cup {c}
                     /\ spc' = AfterRaise(c)
                ELSE /\ stdout' = stdout
                     /\ failed' = failed \cup {c}
                     /\ spc' = "crashed"
    /\ UNCHANGED svars

\* __main__ up to the call of test_weather_api
MainStart ==
    /\ spc = "start"
    /\ stdout' = stdout \o << Banner("testing"), Banner("weather_banner") >>
    /\ spc' = "weather_root"
    /\ UNCHANGED << executed, failed, svars >>

WeatherRootCheck == Check("weather_root")

WeatherDataCheck == Check("weather_data")

WeatherCorsCheck == Check("weather_cors")

\* __main__ between the two calls
SolarBanner ==
    /\ spc = "solar_banner"
    /\ stdout' = Append(stdout, Banner("solar_banner"))
    /\ spc' = "solar_root"
    /\ UNCHANGED << executed, failed, svars >>

SolarRootCheck == Check("solar_root")

SolarPredictionsCheck == Check("solar_predictions")

SolarDatabaseCheck == Check("solar_database")

SolarCorsCheck == Check("solar_cors")

\* __main__ after test_solar_api has returned
Completed ==
    /\ spc = "completed"
    /\ stdout' = Append(stdout, Banner("completed"))
    /\ spc' = "exit"
    /\ UNCHANGED << executed, failed, svars >>

ScriptNext ==
    \/ MainStart
    \/ WeatherRootCheck
    \/ WeatherDataCheck
    \/ WeatherCorsCheck
    \/ SolarBanner
    \/ SolarRootCheck
    \/ SolarPredictionsCheck
    \/ SolarDatabaseCheck
    \/ SolarCorsCheck
    \/ Completed

\* The script is a process of its own; the services' state is not part of it.
ScriptInit == Init /\ rng = 0

ScriptSpec == ScriptInit /\ [][ScriptNext]_vars

Next ==
    \/ weather_root
    \/ get_weather_data
    \/ get_weather_data_alt
    \/ solar_root
    \/ get_solar_predictions
    \/ get_forecast_predictions
    \/ get_predictions_summary
    \/ get_database_status
    \/ example_root
    \/ example_get_weather_data
    \/ get_weather_data_alternative
    \/ health_check
    \/ Deliver

Spec == Init /\ [][Next]_vars

\* ================================================================ claims
Rows == response.body

ArrayReady == pc = "responded" /\ response.kind = "array"

SolarCall ==
    called.fn \in { "generate_realtime_predictions",
                    "generate_forecast_predictions" }

BackwardCall ==
    called.fn \in { "generate_weather_data", "generate_realtime_predictions" }

Irradiance(row) ==
    IF SolarCall THEN row.weather_conditions.direct_normal_irradiance
                 ELSE row.direct_normal_irradiance

Humidity(row) ==
    IF SolarCall THEN row.weather_conditions.relative_humidity_2m
                 ELSE row.relative_humidity_2m

CloudCover(row) ==
    IF SolarCall THEN row.weather_conditions.cloud_cover
                 ELSE row.cloud_cover

InWindow(hour) == 6 <= hour /\ hour <= 18

\* C1: for a limit in [1,100] each of generate_weather_data,
\* generate_realtime_predictions and generate_forecast_predictions returns
\* exactly limit records, and the record at 0-based position i has id i + 1.
C1_IdsRunOneToLimit ==
    ( /\ ArrayReady
      /\ called.fn \in { "generate_weather_data",
                         "generate_realtime_predictions",
                         "generate_forecast_predictions" }
      /\ 1 <= called.limit /\ called.limit <= 100 )
    => /\ Len(Rows) = called.limit
       /\ \A k \in 1 .. Len(Rows) : Rows[k].id = (k - 1) + 1

C1_Witness ==
    /\ ArrayReady
    /\ called.fn = "generate_forecast_predictions"
    /\ called.limit = LongLimit
    /\ Len(Rows) = LongLimit
    /\ Rows[LongLimit].id = LongLimit

\* C2: a GET on /weather/data with an integer limit outside [1,100] is
\* answered 422, with no record array and without calling the generator, in
\* every weather service.
C2_OutOfRangeRejected ==
    ( /\ pc = "responded"
      /\ request.path = "/weather/data"
      /\ request.limit.kind = "int"
      /\ (request.limit.val < 1 \/ request.limit.val > 100) )
    => /\ response.status = 422
       /\ response.kind # "array"
       /\ called.fn = "none"

\* C3: in every record of every generator, an hour of day outside [6,18]
\* gives direct_normal_irradiance = 0 and, in solar records,
\* predicted_power_kw = 0.
C3_NightIsZero ==
    ArrayReady =>
        \A k \in 1 .. Len(Rows) :
            ~InWindow(Rows[k].timestamp.hour)
            => /\ Irradiance(Rows[k]) = 0
               /\ SolarCall => Rows[k].predicted_power_kw = 0

\* a forecast longer than a day whose record past the 24th falls in the night
C3_Witness ==
    /\ ArrayReady
    /\ called.fn = "generate_forecast_predictions"
    /\ Len(Rows) > 24
    /\ \E k \in 25 .. Len(Rows) :
          /\ ~InWindow(Rows[k].timestamp.hour)
          /\ Rows[k].timestamp.date > Rows[1].timestamp.date
          /\ Rows[k].predicted_power_kw = 0
          /\ Irradiance(Rows[k]) = 0

\* C4: in every record of every generator predicted_power_kw >= 0 and
\* direct_normal_irradiance >= 0, at every hour and for every draw.
C4_NeverNegative ==
    ArrayReady =>
        \A k \in 1 .. Len(Rows) :
            /\ Irradiance(Rows[k]) >= 0
            /\ SolarCall => Rows[k].predicted_power_kw >= 0

\* at hours 6 and 18 the curve is 0, so a power of 0 there is a negative
\* draw clamped, and a positive power there is a positive draw
C4_Witness ==
    /\ ArrayReady
    /\ called.fn = "generate_realtime_predictions"
    /\ \E k \in 1 .. Len(Rows) :
          /\ Rows[k].timestamp.hour \in { 6, 18 }
          /\ Rows[k].predicted_power_kw = 0
    /\ \E k \in 1 .. Len(Rows) :
          /\ Rows[k].timestamp.hour \in { 6, 18 }
          /\ Rows[k].predicted_power_kw > 0

\* the documented bounds of relative_humidity_2m, per generator
HumidityBounds ==
    CASE called.fn = "generate_weather_data"         -> << Fx(30), Fx(90) >>
      [] called.fn = "generate_realtime_predictions" -> << Fx(30), Fx(90) >>
      [] OTHER                                       -> << Fx(35), Fx(85) >>

\* the documented bounds of cloud_cover, per generator
CloudBounds ==
    CASE called.fn = "generate_forecast_predictions" -> << Fx(0), Fx(50) >>
      [] called.fn = "generate_realtime_predictions" -> << Fx(0), Fx(60) >>
      [] OTHER                                       -> << Fx(0), Fx(100) >>

\* C5: in every record relative_humidity_2m lies in [30,90] (weather and
\* realtime records) or [35,85] (forecast and sample records), and
\* cloud_cover lies in [0,50] (forecast), [0,60] (realtime) or [0,100]
\* (weather and sample records), whatever the draws.
C5_HumidityAndCloudInBounds ==
    ArrayReady =>
        \A k \in 1 .. Len(Rows) :
            /\ HumidityBounds[1] <= Humidity(Rows[k])
            /\ Humidity(Rows[k]) <= HumidityBounds[2]
            /\ CloudBounds[1] <= CloudCover(Rows[k])
            /\ CloudCover(Rows[k]) <= CloudBounds[2]

\* a forecast holding a record at the top of the cloud range and one at the
\* bottom
C5_Witness ==
    /\ ArrayReady
    /\ called.fn = "generate_forecast_predictions"
    /\ \E k \in 1 .. Len(Rows) : CloudCover(Rows[k]) = Fx(50)
    /\ \E k \in 1 .. Len(Rows) : CloudCover(Rows[k]) = 0

\* C6: in a backward series record i is at now - (limit - i - 1) * 5
\* minutes, so successive records are 5 minutes apart and the last is at
\* now; in the forward series of generate_forecast_predictions record i is
\* at now + i hours, the first is at now, and forecast_type is "hourly".
C6_TimestampsStepFromNow ==
    ( ArrayReady /\ (BackwardCall \/ called.fn = "generate_forecast_predictions") )
    => /\ \A k \in 1 .. Len(Rows) :
            IF BackwardCall
            THEN FromIso(Rows[k].timestamp)
                   = called.now - (called.limit - (k - 1) - 1) * 5
            ELSE /\ FromIso(Rows[k].timestamp) = called.now + (k - 1) * 60
                 /\ Rows[k].forecast_type = "hourly"
       /\ \A k \in 1 .. (Len(Rows) - 1) :
            FromIso(Rows[k + 1].timestamp) - FromIso(Rows[k].timestamp)
              = IF BackwardCall THEN 5 ELSE 60
       /\ Len(Rows) > 0 =>
            FromIso(Rows[IF BackwardCall THEN Len(Rows) ELSE 1].timestamp)
              = called.now

\* a backward series that crosses an hour boundary and ends at now
C6_Witness ==
    /\ ArrayReady
    /\ called.fn = "generate_realtime_predictions"
    /\ called.limit = MaxLimit
    /\ Len(Rows) = MaxLimit
    /\ FromIso(Rows[MaxLimit].timestamp) = called.now
    /\ Rows[1].timestamp.hour # Rows[MaxLimit].timestamp.hour

\* lines printed by the except clauses
ErrorLines == { k \in 1 .. Len(stdout) :
                  stdout[k].tag \in { "weather_error", "solar_error" } }

\* the checks placed after c in the function that holds c
LaterChecks(c) ==
    LET seq == ChecksOf(c)
    IN  { seq[k] : k \in { j \in DOMAIN seq : j > IndexIn(seq, c) } }

\* C8 as stated: when the script has ended every check has been executed,
\* whichever calls raised, and the last line printed is 'Test completed'.
C8_EveryLaterCheckStillRuns ==
    spc = "exit" =>
        /\ executed = AllChecks
        /\ stdout[Len(stdout)].tag = "completed"

\* C8 amended: an exception raised by a check is caught by the function that
\* holds it, which prints one diagnostic line and skips its remaining checks;
\* the checks of the other service still start, nothing propagates, and the
\* last line printed is 'Test completed'.
C8_FailureEndsItsServiceOnly ==
    /\ spc # "crashed"
    /\ spc = "exit" =>
          /\ stdout[Len(stdout)].tag = "completed"
          /\ { "weather_root", "solar_root" } \subseteq executed
          /\ failed \subseteq executed
          /\ \A c \in failed : LaterChecks(c) \cap executed = {}
          /\ \A c \in AllChecks \ executed :
                \E f \in failed : c \in LaterChecks(f)
          /\ Cardinality(ErrorLines) = Cardinality(failed)

\* the first weather check raised, and the solar checks all ran
C8_Witness ==
    /\ spc = "exit"
    /\ "weather_root" \in failed
    /\ "weather_data" \notin executed
    /\ Range(SolarChecks) \subseteq executed
    /\ failed = { "weather_root" }

\* C9: every record answered on /weather-data carries the data_type of the
\* request ("forecast" when omitted), and every record answered on
\* /weather/data carries "forecast", in every weather service.
C9_DataTypeEchoed ==
    ( ArrayReady /\ request.path \in { "/weather-data", "/weather/data" } )
    => \A k \in 1 .. Len(Rows) :
          Rows[k].data_type
            = IF request.path = "/weather-data" /\ request.data_type.given
              THEN request.data_type.val
              ELSE "forecast"

\* C10: for every record of generate_sample_weather_data, at hour h, the
\* jitter-free base temperature at noon is at least that at h; and inside
\* the daylight window the share of irradiance kept by the time factor is
\* at most that of noon, and is 0 at hours 6 and 18.
C10_PeaksAtNoon ==
    ( ArrayReady /\ called.fn = "generate_sample_weather_data" )
    => \A k \in 1 .. Len(Rows) :
          LET h == Rows[k].timestamp.hour
          IN  /\ SampleBaseTemp(12) >= SampleBaseTemp(h)
              /\ InWindow(h) =>
                    /\ Scale - SampleTimeFactor(12) >= Scale - SampleTimeFactor(h)
                    /\ h \in { 6, 18 } => Scale - SampleTimeFactor(h) = 0

====
